---------------------------- MODULE Spec2Model ----------------------------
(***************************************************************************)
(* Model of the two pieces of control flow of the Vertical Agent Factory   *)
(* templates:                                                              *)
(*   - the onboarding step sequencer: the OnboardingWizard component       *)
(*     (core/persona-architect/PERSONA-ARCHITECT.md) together with the     *)
(*     persistence helpers saveOnboardingProgress and completeOnboarding   *)
(*     (factory/templates/onboarding-flow.md);                             *)
(*   - the conversation orchestrator: chat and its system-prompt template  *)
(*     substitution, continueWithToolResult, executeTool and the streamChat *)
(*     generator (lib/claude.ts, src/unnamed/part_002).                    *)
(* JavaScript values are modelled as tagged strings, JavaScript strings    *)
(* as sequences of one-character strings.                                  *)
(***************************************************************************)
EXTENDS Integers, Sequences, FiniteSets, TLC

\* ------------------------------------------------------------------ bounds
\* Requests (upserts, completion calls) that may be awaiting the network.
MaxInFlight == 2
\* Calls of the onComplete callback over one run of the wizard.
MaxCompletions == 2
\* Pieces (placeholders, literal text) a system-prompt template is made of.
MaxPieces == 2
\* Messages in the history handed to chat.
MaxMessages == 2
\* Tool executions the caller makes.
MaxToolRuns == 2
\* Events the backend stream emits.
MaxEvents == 3
\* Characters of a message handed to shouldEscalate.
MaxChars == 3

\* -------------------------------------------------------- JavaScript values
Undefined == "undefined"
EmptyStr  == "str:"
Acme      == "str:Acme"
JsFalse   == "bool:false"
JsTrue    == "bool:true"
Zero      == "num:0"
Ten       == "num:10"

JsValues == {Undefined, EmptyStr, Acme, JsFalse, JsTrue, Zero, Ten}

\* ToBoolean, as applied by `!formData[field.name]` and `if (error)`.
Falsy(v) == v \in {Undefined, EmptyStr, JsFalse, Zero, "null"}

\* ------------------------------------------------------- the flow definition
FieldNames == {"company_name", "markup_percentage", "auto_send",
               "use_custom", "custom_text"}

NoDep == [has |-> FALSE, field |-> "company_name", value |-> Undefined]

TextField(n, req) ==
  [name |-> n, type |-> "text", required |-> req, validate |-> "none", dependsOn |-> NoDep]

SliderField(n, req) ==
  [name |-> n, type |-> "slider", required |-> req, validate |-> "min", dependsOn |-> NoDep]

ToggleField(n, req) ==
  [name |-> n, type |-> "toggle", required |-> req, validate |-> "none", dependsOn |-> NoDep]

DependentField(n, req, on, v) ==
  [name |-> n, type |-> "text", required |-> req, validate |-> "none",
   dependsOn |-> [has |-> TRUE, field |-> on, value |-> v]]

\* What the user can enter in a control of each type.
Enterable(type) ==
  CASE type = "text"   -> {EmptyStr, Acme}
    [] type = "slider" -> {Zero, Ten}
    [] type = "toggle" -> {JsFalse, JsTrue}

\* A step whose configuration has no `fields` key (the welcome step of the
\* example flow) and steps that list their fields.
StepNoFields(id)  == [id |-> id, hasFields |-> FALSE, fields |-> << >>]
StepOf(id, fs)    == [id |-> id, hasFields |-> TRUE, fields |-> fs]

\* The example flow as written: its welcome step declares no `fields` key.
FlowExample ==
  << StepNoFields("welcome"),
     StepOf("company-info", << TextField("company_name", TRUE) >>) >>

\* Welcome and connect steps with empty field lists, then one required field.
FlowScenario ==
  << StepOf("welcome", << >>),
     StepOf("connect-tools", << >>),
     StepOf("company-info", << TextField("company_name", TRUE) >>) >>

\* The configure step: two required fields, one with a lower bound.
FlowConfigure ==
  << StepOf("company-info", << TextField("company_name", TRUE),
                               SliderField("markup_percentage", TRUE) >>) >>

\* A required text field, then the activate step with its required toggle.
FlowActivate ==
  << StepOf("company-info", << TextField("company_name", TRUE) >>),
     StepOf("activate", << ToggleField("auto_send", TRUE) >>) >>

\* A step with a conditionally shown field.
FlowDependent ==
  << StepOf("company-info", << ToggleField("use_custom", FALSE),
                               DependentField("custom_text", TRUE, "use_custom", JsTrue) >>) >>

Flows == {FlowExample, FlowScenario, FlowConfigure, FlowActivate, FlowDependent}

VARIABLES
  steps,            \* the wizard's `steps` prop
  currentStep,      \* useState(0)
  formData,         \* useState(initialData)
  errors,           \* useState({})
  inflight,         \* upsert requests sent and not yet applied by the store
  progress,         \* the onboarding_progress row of (user, flow)
  lastSubmitted,    \* payload of the most recent saveOnboardingProgress call
  calls,            \* completeOnboarding invocations and where each stands
  agentConfigurations, \* rows of agent_configurations for (user, flow)
  provisioned,      \* bodies POSTed to /api/agents/provision
  uncaught,         \* a handler of the wizard has thrown a TypeError
  systemPromptTemplate, \* agentConfig.systemPrompt
  toolDefinitions,  \* toolDefinitions of @/agent/tools
  callerMessages,   \* the message list the caller holds and passes in
  callerContext,    \* the clientContext the caller holds and passes in
  chatArgs,         \* the arguments of the chat call under way
  toolArgs,         \* the arguments of continueWithToolResult, when it made that call
  chatState,        \* "idle", "awaiting" (the backend call), "returned", "threw"
  request,          \* what anthropic.messages.create was last called with
  backendCalls,     \* anthropic.messages.create calls made by the invocation under way
  response,         \* what the backend answered to the invocation under way
  result,           \* what the invocation handed to its caller
  toolRuns,         \* executeToolCall(name, input) calls made so far
  toolOutcome,      \* how the last executeTool call ended for its caller
  previousContext,  \* the clientContext of the caller's chat call before this one
  escalationTriggers, \* agentConfig.escalationTriggers
  escalated,        \* the last shouldEscalate call: its message and its result
  streamState,      \* the streamChat generator: "idle", "created", "open", "done", "closed", "threw"
  streamRequest,    \* what anthropic.messages.stream was called with
  streamEvents,     \* the events the backend stream has emitted so far
  streamEnded,      \* the backend stream has emitted its last event
  streamPos,        \* how many events the for-await loop has taken
  yielded,          \* the fragments handed to the consumer so far
  connection,       \* the backend stream's connection: "none", "open", "released"
  consumer          \* the consumer of the generator: "reading", "stopped", "returned"

wizardVars == << steps, currentStep, formData, errors, uncaught >>
storeVars  == << inflight, progress, lastSubmitted >>
completionVars == << calls, agentConfigurations, provisioned >>
onboardingVars == << wizardVars, storeVars, completionVars >>
configVars == << systemPromptTemplate, toolDefinitions >>
callerVars == << callerMessages, callerContext >>
turnVars   == << chatArgs, toolArgs, chatState, request, backendCalls, response, result >>
streamVars == << streamState, streamRequest, streamEvents, streamEnded, streamPos,
                 yielded, connection, consumer >>
toolVars   == << toolRuns, toolOutcome >>
escalateVars == << escalationTriggers, escalated >>
chatVars == << configVars, callerVars, turnVars, toolVars, previousContext,
               streamVars, escalateVars >>
vars == << steps, currentStep, formData, errors, inflight, progress,
           lastSubmitted, calls, agentConfigurations, provisioned, uncaught,
           systemPromptTemplate, toolDefinitions, callerMessages, callerContext,
           chatArgs, toolArgs, chatState, request, backendCalls, response, result,
           toolRuns, streamState, streamRequest, streamEvents, streamEnded,
           streamPos, yielded, connection, consumer,
           toolOutcome, previousContext, escalationTriggers, escalated >>

\* --------------------------------------------------------------- the wizard
NoErrors == [n \in FieldNames |-> "absent"]
EmptyForm == [n \in FieldNames |-> Undefined]

step == steps[currentStep + 1]
isFirstStep == currentStep = 0
isLastStep  == currentStep = Len(steps) - 1

\* field.validate(value): the slider's lower bound. Returns an error message
\* or nothing.
FieldValidate(rule, v) ==
  IF rule = "min" /\ v = Zero THEN "invalid" ELSE Undefined

\* validateStep without its required check.
ValidateField_SkipsRequired(stepErrors, field, data) ==
  LET error == IF field.validate # "none"
                 THEN FieldValidate(field.validate, data[field.name])
                 ELSE Undefined
  IN IF field.validate # "none" /\ ~Falsy(error)
       THEN [stepErrors EXCEPT ![field.name] = error]
       ELSE stepErrors

\* One iteration of the forEach body of validateStep.
ValidateField(stepErrors, field, data) ==
  LET afterRequired ==
        IF field.required /\ Falsy(data[field.name])
          THEN [stepErrors EXCEPT ![field.name] = "required"]
          ELSE stepErrors
      error == IF field.validate # "none"
                 THEN FieldValidate(field.validate, data[field.name])
                 ELSE Undefined
  IN IF field.validate # "none" /\ ~Falsy(error)
       THEN [afterRequired EXCEPT ![field.name] = error]
       ELSE afterRequired

RECURSIVE ValidateFields(_, _, _, _)
ValidateFields(stepErrors, fields, i, data) ==
  IF i > Len(fields) THEN stepErrors
  ELSE ValidateFields(ValidateField(stepErrors, fields[i], data), fields, i + 1, data)

\* stepErrors as validateStep builds it for a step that lists its fields.
StepErrors(s, data) == ValidateFields(NoErrors, s.fields, 1, data)

ErrorKeys(e) == {n \in FieldNames : e[n] # "absent"}

\* Object.keys(stepErrors).length === 0
validateStep(s, data) == ErrorKeys(StepErrors(s, data)) = {}

\* --------------------------------------------------------------- the store
\* steps[index].id as the wiring of onStepChange reads it.
StepId(idx) == IF idx \in 0..(Len(steps) - 1) THEN steps[idx + 1].id ELSE Undefined

\* The row an upsert carries (user_id and flow_id are those of the one user
\* and flow modelled; updated_at is left out).
Payload(idx, data) == [step_id |-> StepId(idx), data |-> data]

\* get(user_id, flow_id) before the first upsert.
NotFound == [step_id |-> "not found", data |-> EmptyForm]

StepIds == {steps[i].id : i \in 1..Len(steps)}

\* saveOnboardingProgress: the request leaves; the row changes when the store
\* applies it.
saveOnboardingProgress(idx, data) ==
  /\ inflight' = Append(inflight, Payload(idx, data))
  /\ lastSubmitted' = Payload(idx, data)
  /\ UNCHANGED progress

\* onStepChange?.(index, formData), wired to saveOnboardingProgress.
onStepChange(idx, data) == saveOnboardingProgress(idx, data)

\* The single-statement upsert service-side: any pending request may arrive
\* next; the row is overwritten as a whole.
RemoveAt(s, i) == SubSeq(s, 1, i - 1) \o SubSeq(s, i + 1, Len(s))

UpsertApply(i) ==
  /\ i \in 1..Len(inflight)
  /\ progress' = inflight[i]
  /\ inflight' = RemoveAt(inflight, i)
  /\ UNCHANGED << wizardVars, lastSubmitted, completionVars, chatVars >>

\* ----------------------------------------------------------- completion
\* completeOnboarding(userId, flowId, allData) is entered.
completeOnboarding(allData) ==
  calls' = Append(calls, [allData |-> allData, pc |-> "insert"])

\* onComplete(formData), wired to completeOnboarding.
onComplete(data) == completeOnboarding(data)

\* The insert into agent_configurations. The client returns {error} rather
\* than throwing and the result is not inspected, so the call goes on to the
\* provisioning request whether or not a row was written.
CompleteInsert(i, ok) ==
  /\ i \in 1..Len(calls)
  /\ calls[i].pc = "insert"
  /\ agentConfigurations' =
       IF ok THEN Append(agentConfigurations,
                         [configuration |-> calls[i].allData, status |-> "active"])
       ELSE agentConfigurations
  /\ calls' = [calls EXCEPT ![i].pc = "provision"]
  /\ UNCHANGED << wizardVars, storeVars, provisioned, chatVars >>

\* fetch('/api/agents/provision', ...)
CompleteProvision(i) ==
  /\ i \in 1..Len(calls)
  /\ calls[i].pc = "provision"
  /\ provisioned' = Append(provisioned, [configuration |-> calls[i].allData])
  /\ calls' = [calls EXCEPT ![i].pc = "done"]
  /\ UNCHANGED << wizardVars, storeVars, agentConfigurations, chatVars >>

\* ------------------------------------------------------------ the handlers
\* handleNext without `if (!validateStep()) return;`.
handleNext_Unvalidated ==
  IF ~step.hasFields
    THEN /\ uncaught' = TRUE
         /\ UNCHANGED << steps, currentStep, formData, errors, storeVars,
                         completionVars, chatVars >>
  ELSE
    /\ errors' = StepErrors(step, formData)
    /\ UNCHANGED << uncaught, chatVars >>
    /\ IF isLastStep
         THEN /\ Len(calls) < MaxCompletions
              /\ onComplete(formData)
              /\ UNCHANGED << steps, currentStep, formData, storeVars,
                              agentConfigurations, provisioned >>
         ELSE /\ Len(inflight) < MaxInFlight
              /\ currentStep' = currentStep + 1
              /\ onStepChange(currentStep + 1, formData)
              /\ UNCHANGED << steps, formData, completionVars >>

\* handleNext. A step without a `fields` key makes step.fields.forEach throw
\* a TypeError before any state is set.
handleNext ==
  IF ~step.hasFields
    THEN /\ uncaught' = TRUE
         /\ UNCHANGED << steps, currentStep, formData, errors, storeVars,
                         completionVars, chatVars >>
  ELSE
    /\ errors' = StepErrors(step, formData)
    /\ UNCHANGED << uncaught, chatVars >>
    /\ IF ~validateStep(step, formData)
         THEN UNCHANGED << steps, currentStep, formData, storeVars, completionVars >>
       ELSE IF isLastStep
         THEN /\ Len(calls) < MaxCompletions
              /\ onComplete(formData)
              /\ UNCHANGED << steps, currentStep, formData, storeVars,
                              agentConfigurations, provisioned >>
       ELSE   /\ Len(inflight) < MaxInFlight
              /\ currentStep' = currentStep + 1
              /\ onStepChange(currentStep + 1, formData)
              /\ UNCHANGED << steps, formData, completionVars >>

\* handleBack reachable from a Back button rendered on every step.
handleBack_AlwaysRendered ==
  /\ Len(inflight) < MaxInFlight
  /\ currentStep' = currentStep - 1
  /\ onStepChange(currentStep - 1, formData)
  /\ UNCHANGED << steps, formData, errors, uncaught, completionVars, chatVars >>

\* handleBack; the Back button is rendered only when !isFirstStep.
handleBack ==
  /\ ~isFirstStep
  /\ Len(inflight) < MaxInFlight
  /\ currentStep' = currentStep - 1
  /\ onStepChange(currentStep - 1, formData)
  /\ UNCHANGED << steps, formData, errors, uncaught, completionVars, chatVars >>

\* handleFieldChange that sets the form to the one value entered.
handleFieldChange_Replaces(name, value) ==
  /\ formData' = [EmptyForm EXCEPT ![name] = value]
  /\ errors' = IF ~Falsy(errors[name]) /\ errors[name] # "absent"
                 THEN [errors EXCEPT ![name] = "null"]
                 ELSE errors
  /\ UNCHANGED << steps, currentStep, uncaught, storeVars, completionVars, chatVars >>

\* handleFieldChange(name, value), raised by a control of the current step.
handleFieldChange(name, value) ==
  /\ formData' = [formData EXCEPT ![name] = value]
  /\ errors' = IF ~Falsy(errors[name]) /\ errors[name] # "absent"
                 THEN [errors EXCEPT ![name] = "null"]
                 ELSE errors
  /\ UNCHANGED << steps, currentStep, uncaught, storeVars, completionVars, chatVars >>

FieldChange ==
  /\ step.hasFields
  /\ \E i \in 1..Len(step.fields) :
       \E v \in Enterable(step.fields[i].type) :
         handleFieldChange(step.fields[i].name, v)



\* ------------------------------------------------- the system-prompt template
\* "{{" + name + "}}"
Placeholder(name) == << "{", "{" >> \o name \o << "}", "}" >>

Markup           == << "m" >>
MarkupPercentage == << "m", "p" >>
CompanyName      == << "n" >>

Pieces == {Placeholder(Markup), Placeholder(MarkupPercentage),
           Placeholder(CompanyName), << "x" >>}

RECURSIVE TemplatesOf(_)
TemplatesOf(n) ==
  IF n = 0 THEN {<< >>}
  ELSE LET shorter == TemplatesOf(n - 1)
       IN shorter \cup {t \o p : t \in shorter, p \in Pieces}

Templates == TemplatesOf(MaxPieces)

\* Keys and values of a clientContext. A value may itself read as a
\* placeholder or hold the characters "$&".
ContextKeys   == {Markup, CompanyName}
ContextValues == {<< "v" >>, Placeholder(CompanyName), << "$", "&" >>}

\* Object.entries(clientContext): the entries in insertion order, keys distinct.
EntryLists ==
  {<< >>}
  \cup {<< [key |-> k, value |-> v] >> : k \in ContextKeys, v \in ContextValues}
  \cup {e \in {<< [key |-> k1, value |-> v1], [key |-> k2, value |-> v2] >> :
                   k1 \in ContextKeys, k2 \in ContextKeys,
                   v1 \in ContextValues, v2 \in ContextValues} :
          e[1].key # e[2].key}

\* The optional clientContext argument.
NoContext == [given |-> FALSE, entries |-> << >>]
Contexts == {NoContext} \cup {[given |-> TRUE, entries |-> e] : e \in EntryLists}

\* Whether `pat` occurs in s at position i.
MatchesAt(s, i, pat) ==
  /\ i + Len(pat) - 1 <= Len(s)
  /\ SubSeq(s, i, i + Len(pat) - 1) = pat

\* The replacement text String.prototype.replace inserts for one match:
\* "$$" stands for "$" and "$&" for the matched text.
RECURSIVE GetSubstitution(_, _, _)
GetSubstitution(replacement, i, matched) ==
  IF i > Len(replacement) THEN << >>
  ELSE IF replacement[i] = "$" /\ i < Len(replacement) /\ replacement[i + 1] = "$"
    THEN << "$" >> \o GetSubstitution(replacement, i + 2, matched)
  ELSE IF replacement[i] = "$" /\ i < Len(replacement) /\ replacement[i + 1] = "&"
    THEN matched \o GetSubstitution(replacement, i + 2, matched)
  ELSE << replacement[i] >> \o GetSubstitution(replacement, i + 1, matched)

\* s.replace(new RegExp(pat, "g"), replacement) for a pattern that matches
\* the literal text `pat`: leftmost matches, not overlapping.
RECURSIVE ReplaceAll(_, _, _, _)
ReplaceAll(s, i, pat, replacement) ==
  IF i > Len(s) THEN << >>
  ELSE IF MatchesAt(s, i, pat)
    THEN GetSubstitution(replacement, 1, pat)
           \o ReplaceAll(s, i + Len(pat), pat, replacement)
  ELSE << s[i] >> \o ReplaceAll(s, i + 1, pat, replacement)

\* One callback of the forEach over the entries.
ReplaceEntry(prompt, entry) ==
  ReplaceAll(prompt, 1, Placeholder(entry.key), entry.value)

RECURSIVE ReplaceEntries(_, _, _)
ReplaceEntries(prompt, entries, i) ==
  IF i > Len(entries) THEN prompt
  ELSE ReplaceEntries(ReplaceEntry(prompt, entries[i]), entries, i + 1)

\* The systemPrompt chat builds.
systemPrompt(template, clientContext) ==
  IF clientContext.given
    THEN ReplaceEntries(template, clientContext.entries, 1)
    ELSE template

\* ------------------------------------------------------------------- chat
\* A ChatMessage's content is a string; the messages continueWithToolResult
\* adds carry an array of blocks.
StringContent(text)  == [type |-> "string", text |-> text]
ArrayContent(blocks) == [type |-> "array", blocks |-> blocks]

UserMessage      == [role |-> "user", content |-> StringContent("hello")]
AssistantMessage == [role |-> "assistant", content |-> StringContent("hi there")]

RECURSIVE MessageListsOf(_)
MessageListsOf(n) ==
  IF n = 0 THEN {<< >>}
  ELSE LET shorter == MessageListsOf(n - 1)
       IN shorter \cup {Append(l, m) : l \in shorter, m \in {UserMessage, AssistantMessage}}

MessageLists == MessageListsOf(MaxMessages)

\* messages.map(msg => ({role, content}))
anthropicMessages(messages) ==
  [i \in 1..Len(messages) |-> [role |-> messages[i].role, content |-> messages[i].content]]

\* An entry of toolDefinitions; the request takes three of its fields.
LookupDefinition ==
  [name |-> "lookup", description |-> "find a record",
   input_schema |-> "object", handler |-> "lookupHandler"]

ToolDefinitionLists == {<< >>, << LookupDefinition >>}

\* const tools = toolDefinitions.map(tool => ({name, description, input_schema}))
tools ==
  [i \in 1..Len(toolDefinitions) |->
     [name |-> toolDefinitions[i].name,
      description |-> toolDefinitions[i].description,
      input_schema |-> toolDefinitions[i].input_schema]]

\* A request field left undefined, and one that is set.
NoTools == [given |-> FALSE, list |-> << >>]
SomeTools(list) == [given |-> TRUE, list |-> list]

MaxTokens == 1024

\* The argument of anthropic.messages.create.
ChatRequest(messages, clientContext) ==
  [model |-> "agentConfig.model",
   max_tokens |-> MaxTokens,
   system |-> systemPrompt(systemPromptTemplate, clientContext),
   messages |-> anthropicMessages(messages),
   tools |-> IF Len(tools) > 0 THEN SomeTools(tools) ELSE NoTools]

NoArgs    == [messages |-> << >>, clientContext |-> NoContext]
NoRequest == [model |-> "agentConfig.model", max_tokens |-> MaxTokens,
              system |-> << >>, messages |-> << >>, tools |-> NoTools]

\* ToolCall and the arguments of continueWithToolResult.
ToolCall(id, name, input) == [id |-> id, name |-> name, input |-> input]
NoToolArgs == [given |-> FALSE, messages |-> << >>,
               toolCall |-> ToolCall(Undefined, Undefined, Undefined),
               toolResult |-> Undefined]

\* What the backend may answer: content blocks and a stop reason.
TextBlock(text) == [type |-> "text", text |-> text]
ToolUseBlock(id, name, input) ==
  [type |-> "tool_use", id |-> id, name |-> name, input |-> input]
Message(content, stop_reason) ==
  [kind |-> "message", content |-> content, stop_reason |-> stop_reason]
Failure(error) == [kind |-> "error", error |-> error]
NoResponse == [kind |-> "none"]

LookupA == ToolUseBlock("toolu_1", "lookup", "obj:{q:a}")
LookupB == ToolUseBlock("toolu_2", "lookup", "obj:{q:b}")

\* Answers that carry no tool request; "refusal" is a stop reason of the
\* Messages API that AgentResponse does not list.
TextResponses ==
  {Message(<< TextBlock("answer") >>, "end_turn"),
   Message(<< TextBlock("answer"), TextBlock("more") >>, "max_tokens"),
   Message(<< >>, "refusal")}

\* Answers that request tools, possible when the request offered some.
ToolResponses ==
  {Message(<< LookupA >>, "tool_use"),
   Message(<< TextBlock("checking"), LookupB, LookupA >>, "tool_use")}

ResponsesTo(req) ==
  IF req.tools.given THEN TextResponses \cup ToolResponses ELSE TextResponses

BackendErrors == {"APIConnectionTimeoutError", "InternalServerError"}

\* response.content.find(c => c.type === "text")
textContent(r) ==
  IF \E i \in 1..Len(r.content) : r.content[i].type = "text"
    THEN r.content[CHOOSE i \in 1..Len(r.content) :
                     /\ r.content[i].type = "text"
                     /\ \A j \in 1..(i - 1) : r.content[j].type # "text"]
    ELSE [type |-> Undefined]

\* textContent?.type === "text" ? textContent.text : ""
content(r) == IF textContent(r).type = "text" THEN textContent(r).text ELSE ""

\* response.content.filter(c => c.type === "tool_use")
toolUseBlocks(r) == SelectSeq(r.content, LAMBDA c : c.type = "tool_use")

\* toolUseBlocks.map(block => ({id, name, input})).filter(Boolean)
toolCalls(r) ==
  [i \in 1..Len(toolUseBlocks(r)) |->
     ToolCall(toolUseBlocks(r)[i].id, toolUseBlocks(r)[i].name, toolUseBlocks(r)[i].input)]

NoResult == [kind |-> "none"]
Thrown(error) == [kind |-> "threw", error |-> error]

\* The AgentResponse chat returns for a backend answer.
AgentResponse(r) ==
  [kind |-> "returned",
   content |-> content(r),
   toolCalls |-> IF Len(toolCalls(r)) > 0 THEN SomeTools(toolCalls(r)) ELSE NoTools,
   stopReason |-> r.stop_reason]

\* chat that writes the substituted prompt back to agentConfig.systemPrompt.
chat_SubstitutesShared(messages, clientContext) ==
  /\ chatState # "awaiting"
  /\ chatArgs' = [messages |-> messages, clientContext |-> clientContext]
  /\ systemPromptTemplate' = systemPrompt(systemPromptTemplate, clientContext)
  /\ request' = ChatRequest(messages, clientContext)
  /\ backendCalls' = 1
  /\ response' = NoResponse
  /\ result' = NoResult
  /\ chatState' = "awaiting"
  /\ UNCHANGED << toolDefinitions, callerVars, toolVars, streamVars, escalateVars,
                  onboardingVars >>

\* chat(messages, clientContext) up to its await of anthropic.messages.create.
chat(messages, clientContext) ==
  /\ chatState # "awaiting"
  /\ chatArgs' = [messages |-> messages, clientContext |-> clientContext]
  /\ request' = ChatRequest(messages, clientContext)
  /\ backendCalls' = 1
  /\ response' = NoResponse
  /\ result' = NoResult
  /\ chatState' = "awaiting"
  /\ UNCHANGED << configVars, callerVars, toolVars, streamVars, escalateVars,
                  onboardingVars >>

\* ChatReturn that also runs the tools the answer asks for.
ChatReturn_RunsTools ==
  /\ chatState = "awaiting"
  /\ \E r \in ResponsesTo(request) :
       /\ response' = r
       /\ result' = AgentResponse(r)
       /\ toolRuns' = toolRuns \o [i \in 1..Len(toolCalls(r)) |->
                                     [name |-> toolCalls(r)[i].name,
                                      input |-> toolCalls(r)[i].input]]
  /\ chatState' = "returned"
  /\ UNCHANGED << configVars, callerVars, chatArgs, toolArgs, request, backendCalls,
                  toolOutcome, previousContext, streamVars, escalateVars,
                  onboardingVars >>

\* The backend answers and chat returns the AgentResponse.
ChatReturn ==
  /\ chatState = "awaiting"
  /\ \E r \in ResponsesTo(request) :
       /\ response' = r
       /\ result' = AgentResponse(r)
  /\ chatState' = "returned"
  /\ UNCHANGED << configVars, callerVars, chatArgs, toolArgs, request, backendCalls,
                  toolVars, previousContext, streamVars, escalateVars, onboardingVars >>

\* ChatThrow that submits the request again in place of rethrowing.
ChatThrow_Retries ==
  /\ chatState = "awaiting"
  /\ \E e \in BackendErrors : response' = Failure(e)
  /\ backendCalls' = backendCalls + 1
  /\ UNCHANGED << configVars, callerVars, chatArgs, toolArgs, chatState, request,
                  result, toolVars, previousContext, streamVars, escalateVars,
                  onboardingVars >>

\* The backend call fails; chat logs the error and rethrows it.
ChatThrow ==
  /\ chatState = "awaiting"
  /\ \E e \in BackendErrors :
       /\ response' = Failure(e)
       /\ result' = Thrown(e)
  /\ chatState' = "threw"
  /\ UNCHANGED << configVars, callerVars, chatArgs, toolArgs, request, backendCalls,
                  toolVars, previousContext, streamVars, escalateVars, onboardingVars >>

ChatCall ==
  \E m \in MessageLists : \E c \in Contexts :
    /\ chat(m, c)
    /\ toolArgs' = NoToolArgs
    /\ UNCHANGED previousContext

\* JSON.stringify of a tool result: a string becomes its quoted text, a
\* number its digits, and undefined stays undefined.
JsonStringify(v) ==
  CASE v = Acme -> "str:\"Acme\""
    [] v = Ten -> "str:10"
    [] v = Undefined -> Undefined

ToolResults == {Acme, Ten, Undefined}

\* updatedMessages with the two added messages in the other order.
updatedMessages_ResultFirst(messages, toolCall, toolResult) ==
  messages \o
  << [role |-> "user",
      content |-> ArrayContent(<< [type |-> "tool_result", tool_use_id |-> toolCall.id,
                                   content |-> JsonStringify(toolResult)] >>)],
     [role |-> "assistant",
      content |-> ArrayContent(<< [type |-> "tool_use", id |-> toolCall.id,
                                   name |-> toolCall.name, input |-> toolCall.input] >>)] >>

\* updatedMessages with a tool result that names the tool, not the call.
updatedMessages_NamesTool(messages, toolCall, toolResult) ==
  messages \o
  << [role |-> "assistant",
      content |-> ArrayContent(<< [type |-> "tool_use", id |-> toolCall.id,
                                   name |-> toolCall.name, input |-> toolCall.input] >>)],
     [role |-> "user",
      content |-> ArrayContent(<< [type |-> "tool_result", tool_use_id |-> toolCall.name,
                                   content |-> JsonStringify(toolResult)] >>)] >>

\* [...messages, the assistant's tool_use message, the user's tool_result message]
updatedMessages(messages, toolCall, toolResult) ==
  messages \o
  << [role |-> "assistant",
      content |-> ArrayContent(<< [type |-> "tool_use", id |-> toolCall.id,
                                   name |-> toolCall.name, input |-> toolCall.input] >>)],
     [role |-> "user",
      content |-> ArrayContent(<< [type |-> "tool_result", tool_use_id |-> toolCall.id,
                                   content |-> JsonStringify(toolResult)] >>)] >>

\* continueWithToolResult that pushes the two messages onto the list it
\* was given.
continueWithToolResult_Pushes(messages, toolCall, toolResult, clientContext) ==
  /\ chatState # "awaiting"
  /\ callerMessages' = updatedMessages(messages, toolCall, toolResult)
  /\ chatArgs' = [messages |-> callerMessages', clientContext |-> clientContext]
  /\ toolArgs' = [given |-> TRUE, messages |-> messages,
                  toolCall |-> toolCall, toolResult |-> toolResult]
  /\ request' = ChatRequest(callerMessages', clientContext)
  /\ backendCalls' = 1
  /\ response' = NoResponse
  /\ result' = NoResult
  /\ chatState' = "awaiting"
  /\ UNCHANGED << configVars, callerContext, toolVars, streamVars, escalateVars,
                  onboardingVars >>

\* continueWithToolResult: chat on the extended list.
continueWithToolResult(messages, toolCall, toolResult, clientContext) ==
  /\ chat(updatedMessages(messages, toolCall, toolResult), clientContext)
  /\ toolArgs' = [given |-> TRUE, messages |-> messages,
                  toolCall |-> toolCall, toolResult |-> toolResult]

\* How a tool handler may end: it returns a value or raises an error.
ToolError == "Error: lookup failed"
Returned(value) == [raised |-> FALSE, kind |-> "returned", value |-> value]
Rejected(error) == [raised |-> TRUE, kind |-> "threw", value |-> error]
NoOutcome == [raised |-> FALSE, kind |-> "none", value |-> Undefined]

\* What executeToolCall does with the handler's ending, and executeTool with
\* that: `return executeToolCall(...)` with no try around it, so a value is
\* returned and an error rethrown.
ToolEndings == {Returned(v) : v \in ToolResults} \cup {Rejected(ToolError)}

\* executeTool: executeToolCall(toolCall.name, toolCall.input).
executeTool(toolCall) ==
  /\ Len(toolRuns) < MaxToolRuns
  /\ toolRuns' = Append(toolRuns, [name |-> toolCall.name, input |-> toolCall.input])
  /\ \E ending \in ToolEndings : toolOutcome' = ending
  /\ UNCHANGED << configVars, callerVars, turnVars, previousContext, streamVars,
                  escalateVars, onboardingVars >>

\* The caller of the orchestrator: it starts a turn on the list it holds,
\* runs a tool the turn asked for, and continues the turn with a tool result.
CallerChat ==
  /\ chat(callerMessages, callerContext)
  /\ toolArgs' = NoToolArgs
  /\ UNCHANGED previousContext

CallerExecuteTool ==
  /\ chatState = "returned"
  /\ \E i \in 1..Len(result.toolCalls.list) : executeTool(result.toolCalls.list[i])

CallerContinue ==
  /\ chatState = "returned"
  /\ \E i \in 1..Len(result.toolCalls.list) : \E toolResult \in ToolResults :
       /\ continueWithToolResult(callerMessages, result.toolCalls.list[i],
                                 toolResult, callerContext)
       /\ UNCHANGED previousContext

\* ------------------------------------------------------------- streamChat
\* The argument of anthropic.messages.stream.
StreamRequest(messages, clientContext) ==
  [model |-> "agentConfig.model",
   max_tokens |-> MaxTokens,
   system |-> systemPrompt(systemPromptTemplate, clientContext),
   messages |-> anthropicMessages(messages),
   tools |-> NoTools]

\* Events of the backend stream.
TextDelta(text) ==
  [type |-> "content_block_delta", delta |-> [type |-> "text_delta", text |-> text]]
OtherDelta ==
  [type |-> "content_block_delta", delta |-> [type |-> "input_json_delta", partial_json |-> "{"]]
MessageStart == [type |-> "message_start"]

StreamEventKinds == {TextDelta("a"), TextDelta("b"), OtherDelta, MessageStart}

\* event.type === "content_block_delta" && event.delta.type === "text_delta"
IsTextDelta(event) ==
  /\ event.type = "content_block_delta"
  /\ event.delta.type = "text_delta"

\* streamChat(messages, clientContext), from the consumer's first next() to
\* the start of the for-await loop: the request leaves and the stream opens.
streamChat(messages, clientContext) ==
  /\ streamState = "idle"
  /\ streamRequest' = StreamRequest(messages, clientContext)
  /\ streamState' = "open"
  /\ connection' = "open"
  /\ consumer' = "reading"
  /\ UNCHANGED << streamEvents, streamEnded, streamPos, yielded >>
  /\ UNCHANGED << configVars, callerVars, turnVars, toolVars, previousContext,
                  escalateVars, onboardingVars >>

\* The backend emits one more event.
BackendEmit ==
  /\ connection = "open"
  /\ ~streamEnded
  /\ Len(streamEvents) < MaxEvents
  /\ \E event \in StreamEventKinds : streamEvents' = Append(streamEvents, event)
  /\ UNCHANGED << streamState, streamRequest, streamEnded, streamPos, yielded,
                  connection, consumer >>
  /\ UNCHANGED << configVars, callerVars, turnVars, toolVars, previousContext,
                  escalateVars, onboardingVars >>

\* The backend ends its stream.
BackendEnd ==
  /\ connection = "open"
  /\ ~streamEnded
  /\ streamEnded' = TRUE
  /\ connection' = "released"
  /\ UNCHANGED << streamState, streamRequest, streamEvents, streamPos, yielded, consumer >>
  /\ UNCHANGED << configVars, callerVars, turnVars, toolVars, previousContext,
                  escalateVars, onboardingVars >>

\* StreamStep that yields for every content_block_delta.
StreamStep_AnyDelta ==
  /\ streamState = "open"
  /\ consumer = "reading"
  /\ streamPos < Len(streamEvents)
  /\ streamPos' = streamPos + 1
  /\ yielded' = IF streamEvents[streamPos + 1].type = "content_block_delta"
                  THEN Append(yielded, IF IsTextDelta(streamEvents[streamPos + 1])
                                         THEN streamEvents[streamPos + 1].delta.text
                                         ELSE Undefined)
                  ELSE yielded
  /\ UNCHANGED << streamState, streamRequest, streamEvents, streamEnded,
                  connection, consumer >>
  /\ UNCHANGED << configVars, callerVars, turnVars, toolVars, previousContext,
                  escalateVars, onboardingVars >>

\* One turn of the for-await loop: a text delta is yielded, any other event
\* is passed over.
StreamStep ==
  /\ streamState = "open"
  /\ consumer = "reading"
  /\ streamPos < Len(streamEvents)
  /\ streamPos' = streamPos + 1
  /\ yielded' = IF IsTextDelta(streamEvents[streamPos + 1])
                  THEN Append(yielded, streamEvents[streamPos + 1].delta.text)
                  ELSE yielded
  /\ UNCHANGED << streamState, streamRequest, streamEvents, streamEnded,
                  connection, consumer >>
  /\ UNCHANGED << configVars, callerVars, turnVars, toolVars, previousContext,
                  escalateVars, onboardingVars >>

\* The loop has taken every event of an ended stream: the generator completes.
StreamFinish ==
  /\ streamState = "open"
  /\ consumer = "reading"
  /\ streamEnded
  /\ streamPos = Len(streamEvents)
  /\ streamState' = "done"
  /\ UNCHANGED << streamRequest, streamEvents, streamEnded, streamPos, yielded,
                  connection, consumer >>
  /\ UNCHANGED << configVars, callerVars, turnVars, toolVars, previousContext,
                  escalateVars, onboardingVars >>

\* The backend stream fails: the loop throws and so does the generator.
StreamThrow ==
  /\ streamState = "open"
  /\ consumer = "reading"
  /\ connection = "open"
  /\ streamState' = "threw"
  /\ streamEnded' = TRUE
  /\ connection' = "released"
  /\ UNCHANGED << streamRequest, streamEvents, streamPos, yielded, consumer >>
  /\ UNCHANGED << configVars, callerVars, turnVars, toolVars, previousContext,
                  escalateVars, onboardingVars >>

\* The consumer leaves early through the generator's return(), as a break
\* out of for-await does: the loop closes the stream's iterator.
ConsumerReturn ==
  /\ streamState = "open"
  /\ consumer = "reading"
  /\ consumer' = "returned"
  /\ streamState' = "closed"
  /\ connection' = "released"
  /\ UNCHANGED << streamRequest, streamEvents, streamEnded, streamPos, yielded >>
  /\ UNCHANGED << configVars, callerVars, turnVars, toolVars, previousContext,
                  escalateVars, onboardingVars >>

\* The consumer stops calling next() and never calls return(): the generator
\* stays suspended at its yield.
ConsumerStop ==
  /\ streamState = "open"
  /\ consumer = "reading"
  /\ consumer' = "stopped"
  /\ UNCHANGED << streamState, streamRequest, streamEvents, streamEnded, streamPos,
                  yielded, connection >>
  /\ UNCHANGED << configVars, callerVars, turnVars, toolVars, previousContext,
                  escalateVars, onboardingVars >>

CallerStream == streamChat(callerMessages, callerContext)

\* ---------------------------------------------------------- shouldEscalate
\* The characters of messages and trigger phrases: two letters, one of them
\* in both cases, and a space.
Chars == {"h", "H", "u", " "}

\* String.prototype.toLowerCase, character by character.
LowerChar(c) == IF c = "H" THEN "h" ELSE c
toLowerCase(s) == [i \in 1..Len(s) |-> LowerChar(s[i])]

\* String.prototype.includes
includes(s, searchString) == \E i \in 1..(Len(s) + 1) : MatchesAt(s, i, searchString)

RECURSIVE StringsOf(_)
StringsOf(n) ==
  IF n = 0 THEN {<< >>}
  ELSE LET shorter == StringsOf(n - 1)
       IN shorter \cup {Append(t, c) : t \in shorter, c \in Chars}

EscalationMessages == StringsOf(MaxChars)

\* Trigger phrases as a configuration may list them, the empty phrase included.
TriggerPhrases == {<< "h" >>, << "H", "u" >>, << "u", " ", "H" >>, << >>}
TriggerLists ==
  {<< >>} \cup {<< a >> : a \in TriggerPhrases}
          \cup {<< a, b >> : a \in TriggerPhrases, b \in TriggerPhrases}

NotCalled == [called |-> FALSE, message |-> << >>, result |-> FALSE]

\* shouldEscalate that compares the lowered message with the phrase as written.
shouldEscalate_PhraseAsWritten(message) ==
  /\ escalated' =
       [called |-> TRUE, message |-> message,
        result |-> \E j \in 1..Len(escalationTriggers) :
                     includes(toLowerCase(message), escalationTriggers[j])]
  /\ UNCHANGED << escalationTriggers, configVars, callerVars, turnVars, toolVars,
                  previousContext, streamVars, onboardingVars >>

\* shouldEscalate(message)
shouldEscalate(message) ==
  /\ escalated' =
       [called |-> TRUE, message |-> message,
        result |-> \E j \in 1..Len(escalationTriggers) :
                     includes(toLowerCase(message), toLowerCase(escalationTriggers[j]))]
  /\ UNCHANGED << escalationTriggers, configVars, callerVars, turnVars, toolVars,
                  previousContext, streamVars, onboardingVars >>

Escalate == \E message \in EscalationMessages : shouldEscalate(message)

\* ---------------------------------------------------------- specifications
WizardStart ==
  /\ currentStep = 0
  /\ formData = EmptyForm
  /\ errors = NoErrors
  /\ inflight = << >>
  /\ progress = NotFound
  /\ lastSubmitted = NotFound
  /\ calls = << >>
  /\ agentConfigurations = << >>
  /\ provisioned = << >>
  /\ uncaught = FALSE

ChatIdle ==
  /\ chatArgs = NoArgs
  /\ toolArgs = NoToolArgs
  /\ chatState = "idle"
  /\ request = NoRequest
  /\ backendCalls = 0
  /\ response = NoResponse
  /\ result = NoResult
  /\ toolRuns = << >>
  /\ toolOutcome = NoOutcome
  /\ previousContext = NoContext

StreamIdle ==
  /\ streamState = "idle"
  /\ streamRequest = NoRequest
  /\ streamEvents = << >>
  /\ streamEnded = FALSE
  /\ streamPos = 0
  /\ yielded = << >>
  /\ connection = "none"
  /\ consumer = "reading"

NoCaller ==
  /\ toolDefinitions = << >>
  /\ callerMessages = << >>
  /\ callerContext = NoContext

EscalateIdle ==
  /\ escalationTriggers = << >>
  /\ escalated = NotCalled

Init ==
  /\ steps \in Flows
  /\ WizardStart
  /\ systemPromptTemplate = << >>
  /\ NoCaller
  /\ ChatIdle
  /\ StreamIdle
  /\ EscalateIdle

Upsert == \E i \in 1..MaxInFlight : UpsertApply(i)
Insert == \E i \in 1..MaxCompletions : \E ok \in BOOLEAN : CompleteInsert(i, ok)
Provision == \E i \in 1..MaxCompletions : CompleteProvision(i)

Next ==
  \/ handleNext
  \/ handleBack
  \/ FieldChange
  \/ Upsert
  \/ Insert
  \/ Provision

\* The onboarding wizard with its store and completion calls.
Spec == Init /\ [][Next]_vars

InitChat ==
  /\ steps = FlowScenario
  /\ WizardStart
  /\ systemPromptTemplate \in Templates
  /\ NoCaller
  /\ ChatIdle
  /\ StreamIdle
  /\ EscalateIdle

NextChat ==
  \/ ChatCall
  \/ ChatReturn
  \/ ChatThrow

\* The conversation orchestrator.
SpecChat == InitChat /\ [][NextChat]_vars

\* A caller holding one message list and one clientContext, with or without
\* tools configured.
CallerContexts ==
  {NoContext, [given |-> TRUE, entries |-> << [key |-> CompanyName, value |-> << "v" >>] >>]}

InitTurn ==
  /\ steps = FlowScenario
  /\ WizardStart
  /\ systemPromptTemplate = Placeholder(CompanyName)
  /\ toolDefinitions \in ToolDefinitionLists
  /\ callerMessages \in MessageLists
  /\ callerContext \in CallerContexts
  /\ ChatIdle
  /\ StreamIdle
  /\ EscalateIdle

NextTurn ==
  \/ CallerChat
  \/ CallerExecuteTool
  \/ CallerContinue
  \/ ChatReturn
  \/ ChatThrow

\* A caller driving turns, tool executions and continuations.
SpecTurn == InitTurn /\ [][NextTurn]_vars

NextStream ==
  \/ CallerStream
  \/ BackendEmit
  \/ BackendEnd
  \/ StreamStep
  \/ StreamFinish
  \/ StreamThrow
  \/ ConsumerReturn
  \/ ConsumerStop

\* A caller consuming one streamChat generator.
SpecStream == InitTurn /\ [][NextStream]_vars

\* Calls for several clients in turn: the same message list, a clientContext
\* of at most one entry each time.
ClientContexts == {c \in Contexts : Len(c.entries) <= 1}

ClientChat ==
  \E c \in ClientContexts :
    /\ chat(callerMessages, c)
    /\ toolArgs' = NoToolArgs
    /\ previousContext' = chatArgs.clientContext

NextClients ==
  \/ ClientChat
  \/ ChatReturn
  \/ ChatThrow

\* A caller serving one client after another.
SpecClients == InitTurn /\ [][NextClients]_vars

InitEscalate ==
  /\ steps = FlowScenario
  /\ WizardStart
  /\ systemPromptTemplate = << >>
  /\ NoCaller
  /\ ChatIdle
  /\ StreamIdle
  /\ escalationTriggers \in TriggerLists
  /\ escalated = NotCalled

NextEscalate == Escalate

\* shouldEscalate applied to messages under a configured trigger list.
SpecEscalate == InitEscalate /\ [][NextEscalate]_vars

\* ================================================================= claims

\* Every completeOnboarding invocation has run to its end.
AllCallsDone == \A i \in 1..Len(calls) : calls[i].pc = "done"

\* C1: once every completion request for the (user, flow) has been served,
\* however many there were, the provisioning endpoint has been called
\* exactly once.
C1_ProvisionedExactlyOnce ==
  (Len(calls) >= 1 /\ AllCallsDone) => Len(provisioned) = 1

\* C2: at most one agent_configurations row exists for the (user, flow),
\* whatever the number of completion calls.
C2_AtMostOneConfiguration == Len(agentConfigurations) <= 1

\* C3: the wizard's currentStep is an index of the flow's steps, and so is
\* the step named by every progress row written or on its way.
C3_CurrentStepInRange ==
  /\ currentStep \in 0..(Len(steps) - 1)
  /\ progress = NotFound \/ progress.step_id \in StepIds
  /\ \A i \in 1..Len(inflight) : inflight[i].step_id \in StepIds

\* Continue was pressed on the last step (a completion call was made) and
\* Back was then pressed down to the first step.
C3_Witness ==
  /\ steps = FlowScenario
  /\ Len(calls) >= 1
  /\ currentStep = 0
  /\ lastSubmitted.step_id = "welcome"

\* C4: a handleNext never lowers currentStep, and one whose step fails
\* validation changes neither currentStep nor issues onStepChange or
\* onComplete.
C4_AdvanceMonotonic ==
  [][handleNext =>
       /\ currentStep' >= currentStep
       /\ (step.hasFields /\ ~validateStep(step, formData)) =>
            /\ currentStep' = currentStep
            /\ inflight' = inflight
            /\ lastSubmitted' = lastSubmitted
            /\ calls' = calls]_vars

\* The last step was submitted with its required field missing: the error
\* is shown, the wizard is still on that step and nothing was completed.
C4_Witness ==
  /\ steps = FlowScenario
  /\ currentStep = 2
  /\ errors["company_name"] = "required"
  /\ calls = << >>

\* Every required field of step s holds a value validateStep accepts, and
\* every validate hook of the step returns no error.
RequiredFieldsPass(s, data) ==
  /\ s.hasFields
  /\ \A i \in 1..Len(s.fields) :
       /\ s.fields[i].required => ~Falsy(data[s.fields[i].name])
       /\ s.fields[i].validate # "none" =>
            Falsy(FieldValidate(s.fields[i].validate, data[s.fields[i].name]))

\* C5: currentStep grows by one, or a completion call is made, only in a
\* transition at which the required fields of the step shown pass.
C5_ForwardOnlyWhenValid ==
  [][(currentStep' = currentStep + 1 \/ Len(calls') > Len(calls))
       => RequiredFieldsPass(step, formData)]_vars

\* The first step was left, shown again through Back (its upsert is still
\* on its way) and left again with its required field filled in.
C5_Witness ==
  /\ steps = FlowActivate
  /\ currentStep = 1
  /\ Len(inflight) = 2
  /\ inflight[1].step_id = "company-info"
  /\ inflight[2].step_id = "activate"
  /\ formData["company_name"] = Acme

\* A non-empty value: anything but a missing key or the empty string.
Present(v) == v \notin {Undefined, EmptyStr}

\* C6: the errors validateStep sets have an entry for every required field
\* without a non-empty value, and are empty exactly when every required
\* field is present and every validate hook passes.
C6_AllViolationsReported ==
  [][(handleNext /\ step.hasFields) =>
       /\ \A i \in 1..Len(step.fields) :
            (step.fields[i].required /\ ~Present(formData[step.fields[i].name]))
              => errors'[step.fields[i].name] # "absent"
       /\ (ErrorKeys(errors') = {}) <=>
            \A i \in 1..Len(step.fields) :
              /\ step.fields[i].required => Present(formData[step.fields[i].name])
              /\ step.fields[i].validate # "none" =>
                   Falsy(FieldValidate(step.fields[i].validate,
                                       formData[step.fields[i].name]))]_vars

\* The dependency condition of a field is not met by the form data.
DependencyUnmet(field, data) ==
  field.dependsOn.has /\ data[field.dependsOn.field] # field.dependsOn.value

\* C7: validateStep sets no error for an empty field whose dependsOn
\* condition is not met.
C7_UnmetDependencySkipped ==
  [][(handleNext /\ step.hasFields) =>
       \A i \in 1..Len(step.fields) :
         (DependencyUnmet(step.fields[i], formData)
            /\ ~Present(formData[step.fields[i].name]))
           => errors'[step.fields[i].name] = "absent"]_vars

\* C8: validateStep does not report a required toggle the form omits.
C8_OmittedToggleNotMissing ==
  [][(handleNext /\ step.hasFields) =>
       \A i \in 1..Len(step.fields) :
         (step.fields[i].type = "toggle" /\ step.fields[i].required
            /\ formData[step.fields[i].name] = Undefined)
           => errors'[step.fields[i].name] = "absent"]_vars

\* C9: once every upsert sent has been applied, the progress row is the
\* one the submissions leave when applied one after the other, that is the
\* row of the submission made last.
C9_SerialOutcome ==
  (inflight = << >> /\ lastSubmitted # NotFound) => progress = lastSubmitted

\* The template with each placeholder of a context key replaced once, in
\* one pass, by that key's value, and everything else copied.
RECURSIVE Rendered(_, _, _)
Rendered(template, i, entries) ==
  IF i > Len(template) THEN << >>
  ELSE LET hits == {j \in 1..Len(entries) :
                      MatchesAt(template, i, Placeholder(entries[j].key))}
       IN IF hits = {}
            THEN << template[i] >> \o Rendered(template, i + 1, entries)
            ELSE LET j == CHOOSE h \in hits : TRUE
                 IN entries[j].value
                      \o Rendered(template, i + Len(Placeholder(entries[j].key)), entries)

\* C10: the system prompt chat submits is the template with every
\* placeholder of a context key replaced by its value and every other
\* placeholder left as written.
C10_PlaceholdersSubstituted ==
  chatState # "idle" =>
    request.system = Rendered(systemPromptTemplate, 1, chatArgs.clientContext.entries)

\* ------------------------------------------------- the orchestrator's turns
\* A continuation has been submitted: continueWithToolResult made the call
\* under way or the one that last ended.
Continued == chatState # "idle" /\ toolArgs.given

\* C11: the messages continueWithToolResult submits are the history it was
\* given, in its order, then one assistant message holding the tool call,
\* then one user message holding the tool result, and nothing else.
C11_ContinuationSequence ==
  Continued =>
    LET n == Len(toolArgs.messages) IN
      /\ Len(request.messages) = n + 2
      /\ SubSeq(request.messages, 1, n) = toolArgs.messages
      /\ request.messages[n + 1].role = "assistant"
      /\ request.messages[n + 1].content.type = "array"
      /\ Len(request.messages[n + 1].content.blocks) = 1
      /\ request.messages[n + 1].content.blocks[1].type = "tool_use"
      /\ request.messages[n + 1].content.blocks[1].name = toolArgs.toolCall.name
      /\ request.messages[n + 1].content.blocks[1].input = toolArgs.toolCall.input
      /\ request.messages[n + 2].role = "user"
      /\ request.messages[n + 2].content.type = "array"
      /\ Len(request.messages[n + 2].content.blocks) = 1
      /\ request.messages[n + 2].content.blocks[1].type = "tool_result"

C11_Witness ==
  /\ chatState = "awaiting"
  /\ toolArgs.given
  /\ Len(toolArgs.messages) = 2
  /\ toolArgs.messages[1] # toolArgs.messages[2]

\* C12: in a continuation the tool result's tool_use_id is the id of the
\* tool call block of the assistant message just before it.
C12_ToolResultNamesCall ==
  Continued =>
    LET n == Len(request.messages)
        call == request.messages[n - 1].content.blocks[1]
        outcome == request.messages[n].content.blocks[1]
    IN /\ call.type = "tool_use"
       /\ outcome.type = "tool_result"
       /\ outcome.tool_use_id = call.id
       /\ call.id = toolArgs.toolCall.id

C12_Witness ==
  /\ chatState = "returned"
  /\ toolArgs.given
  /\ toolArgs.toolCall.id = "toolu_2"

\* The tool invocations a backend answer asks for, read off its content
\* from block i on.
RECURSIVE Requested(_, _)
Requested(blocks, i) ==
  IF i > Len(blocks) THEN << >>
  ELSE IF blocks[i].type = "tool_use"
    THEN << ToolCall(blocks[i].id, blocks[i].name, blocks[i].input) >>
           \o Requested(blocks, i + 1)
    ELSE Requested(blocks, i + 1)

\* C13: a turn the backend ends with tool_use returns the invocations the
\* answer asks for, in the answer's order, and no step of a turn runs a
\* tool: toolRuns grows only in a step that is no part of a turn.
C13_ToolsReturnedNotRun ==
  [][/\ (chatState = "awaiting" /\ chatState' = "returned"
           /\ response'.stop_reason = "tool_use")
        => result'.toolCalls = SomeTools(Requested(response'.content, 1))
     /\ chatState' # chatState => toolRuns' = toolRuns]_vars

C13_Witness ==
  /\ chatState = "returned"
  /\ response.stop_reason = "tool_use"
  /\ Len(result.toolCalls.list) = 2
  /\ toolRuns = << >>

C15_CallerArgumentsUnchanged ==
  [][callerMessages' = callerMessages /\ callerContext' = callerContext]_vars

C15_Witness ==
  /\ chatState \in {"returned", "threw"}
  /\ toolArgs.given
  /\ callerContext.given
  /\ Len(callerMessages) = 2

\* C16: chat called with an empty message list fails and submits nothing.
C16_EmptyListRejected ==
  (chatState # "idle" /\ ~toolArgs.given /\ chatArgs.messages = << >>) =>
    (chatState = "threw" /\ backendCalls = 0)

\* C17: the stopReason of a returned result is end_turn, tool_use or
\* max_tokens.
C17_StopReasonListed ==
  chatState = "returned" => result.stopReason \in {"end_turn", "tool_use", "max_tokens"}

\* ------------------------------------------------------------- the stream
\* The text fragments among the first n events.
RECURSIVE TextFragments(_, _)
TextFragments(events, n) ==
  IF n = 0 THEN << >>
  ELSE IF events[n].type = "content_block_delta" /\ events[n].delta.type = "text_delta"
    THEN Append(TextFragments(events, n - 1), events[n].delta.text)
    ELSE TextFragments(events, n - 1)

\* C18: at every moment the fragments streamChat has yielded are the text
\* deltas among the events taken so far, in their order; the generator
\* completes only when the backend stream has ended and every event was
\* taken; once complete it yields nothing more.
C18_YieldsTextDeltasInOrder ==
  [][/\ yielded' = TextFragments(streamEvents', streamPos')
     /\ streamState' = "done" => (streamEnded' /\ streamPos' = Len(streamEvents'))
     /\ streamState = "done" => (yielded' = yielded /\ streamState' = "done")]_vars

C18_Witness ==
  /\ streamState = "done"
  /\ yielded = << "b", "a" >>
  /\ Len(streamEvents) = 3

\* C19: once the consumer has stopped reading, the backend stream's
\* connection is no longer open.
C19_AbandonedStreamClosed ==
  consumer # "reading" => connection # "open"

\* C20: the request streamChat submits is the one chat submits for the
\* same messages and clientContext.
C20_StreamRequestAsChat ==
  streamState # "idle" => streamRequest = ChatRequest(callerMessages, callerContext)

\* ------------------------------------------------------------- escalation
\* Two characters that are the same letter, whatever their case.
SameLetter(a, b) == a = b \/ {a, b} = {"h", "H"}

\* The phrase occurs in the message, letter for letter, at some position.
Occurs(phrase, message) ==
  \E i \in 1..(Len(message) - Len(phrase) + 1) :
    \A k \in 1..Len(phrase) : SameLetter(message[i + k - 1], phrase[k])

\* C21: shouldEscalate answers true exactly when some trigger phrase occurs
\* in the message, case ignored on both sides, false for an empty trigger
\* list, and it changes nothing else.
C21_EscalatesOnTriggerOnly ==
  [][/\ escalated'.called =>
          (escalated'.result <=>
             \E j \in 1..Len(escalationTriggers) :
               Occurs(escalationTriggers[j], escalated'.message))
     /\ UNCHANGED << escalationTriggers, configVars, callerVars, turnVars, toolVars,
                     previousContext, streamVars, onboardingVars >>]_vars

C21_Witness ==
  /\ escalated.called
  /\ escalated.result
  /\ escalated.message = << " ", "h", "u" >>
  /\ escalationTriggers = << << "H", "u" >> >>

\* C22: a tool that raises does not end executeTool with an error: its
\* caller gets a result to hand on as the tool result.
C22_ToolErrorBecomesResult ==
  toolOutcome.raised => toolOutcome.kind = "returned"

\* C23: handleNext raises no error, on a step that declares no fields as on
\* any other.
C23_NoFieldsStepAdvances ==
  ~uncaught

\* C24: the shared template and tool list never change, and the request of
\* every call is the one chat builds from that call's own arguments.
C24_StatelessAcrossCalls ==
  [][/\ systemPromptTemplate' = systemPromptTemplate
     /\ toolDefinitions' = toolDefinitions
     /\ chatState' = "awaiting" =>
          request' = ChatRequest(chatArgs'.messages, chatArgs'.clientContext)]_vars

C24_Witness ==
  /\ chatState = "awaiting"
  /\ previousContext.given
  /\ previousContext.entries = << [key |-> CompanyName, value |-> << "v" >>] >>
  /\ ~chatArgs.clientContext.given
  /\ request.system = Placeholder(CompanyName)

\* C25: a step changes the value of at most one field, that field is one of
\* the step shown, and Continue and Back change no value.
C25_OnlySubmittedFieldChanges ==
  [][\A n \in FieldNames :
       formData'[n] # formData[n] =>
         /\ currentStep' = currentStep
         /\ \E i \in 1..Len(step.fields) : step.fields[i].name = n
         /\ \A m \in FieldNames \ {n} : formData'[m] = formData[m]]_vars

C25_Witness ==
  /\ currentStep = 0
  /\ formData["company_name"] = Acme
  /\ formData["auto_send"] = JsTrue

\* C26: once the wizard is past its first step, the progress row holds the
\* step shown.
C26_PersistedBeforeAhead ==
  currentStep > 0 => progress.step_id = StepId(currentStep)

\* C27: every configuration sent to the provisioning endpoint is the
\* configuration of a row of agent_configurations with status active.
C27_ProvisionedEqualsStored ==
  \A i \in 1..Len(provisioned) :
    \E j \in 1..Len(agentConfigurations) :
      agentConfigurations[j] =
        [configuration |-> provisioned[i].configuration, status |-> "active"]

\* C28: validateStep marks a field "required" only when the form holds no
\* value for it.
C28_RequiredOnlyWhenAbsent ==
  [][(handleNext /\ step.hasFields) =>
       \A i \in 1..Len(step.fields) :
         errors'[step.fields[i].name] = "required"
           => ~Present(formData[step.fields[i].name])]_vars

\* C29: there are never more provisioning requests than rows written.
C29_ProvisionAfterWrite ==
  Len(provisioned) <= Len(agentConfigurations)

\* Object.entries in the opposite order.
Reversed(entries) == [i \in 1..Len(entries) |-> entries[Len(entries) + 1 - i]]

\* C30: the system prompt submitted is the one the same context gives with
\* its keys processed in the opposite order.
C30_OrderIndependent ==
  chatState # "idle" =>
    request.system =
      systemPrompt(systemPromptTemplate,
                   [given |-> chatArgs.clientContext.given,
                    entries |-> Reversed(chatArgs.clientContext.entries)])

====
